---- MODULE Spec2Model ----
(***************************************************************************)
(* The Sentinel-2 pipeline: main.py (orchestrator), sentinel_downloader.py *)
(* (acquire), scene_classifier.py (extract) and visualizer.py (render).    *)
(* The program is single-threaded; pc is the position of its one thread.   *)
(* The catalog client, the filesystem, the archive reader, the raster      *)
(* decoder and the plotting client are the environment: every call into    *)
(* them either returns one of the values it can return or raises.          *)
(***************************************************************************)
EXTENDS Integers, Sequences, FiniteSets, TLC

\* ------------------------------------------------------------------ bounds
MaxProducts == 2      \* catalog entries one query returns, at most
MaxDate == 2          \* ingestion timestamps are 1..MaxDate
MaxFiles == 2         \* files of a product tree, at most
MaxCalls == 2         \* invocations of a stage by a direct caller
MaxPixels == 2        \* pixels of a grid passed to render, at most
MaxDirs == 2          \* directories at the top level of an archive, at most

\* ------------------------------------------------------------ values
None == "None"
Dates == 1..MaxDate

\* A catalog query's result in the catalog's order: entry i has identifier i
\* and ingestion timestamp products[i].
ProductSeqs == UNION {[1..n -> Dates] : n \in 0..MaxProducts}

\* Local paths a download may report and a caller may pass to extract.
Paths == {"S2.zip", "S2.SAFE", "S2.dat"}
download_path == "downloads"

\* os.path.splitext(os.path.basename(p)) for the paths of the model.
SplitExt(p) ==
    CASE p = "S2.zip" -> <<"S2", ".zip">>
      [] p = "S2.SAFE" -> <<"S2", ".SAFE">>
      [] OTHER -> <<"S2", ".dat">>

\* str.lower() on the suffixes of the model.
Lower(s) ==
    CASE s = ".SAFE" -> ".safe"
      [] OTHER -> s

\* product_path.lower().endswith(suffix)
EndsWithLower(p, suffix) == Lower(SplitExt(p)[2]) = suffix

\* Files of a product tree, and each name split at "_" and at its extension.
Files == {"T1_SCL_20m.jp2", "T2_SCL_20m.jp2", "T1_SCL_60m.jp2",
          "T1_SCL_10m.jp2", "T1_B04_20m.jp2"}

Toks(f) ==
    CASE f = "T1_SCL_20m.jp2" -> <<"T1", "SCL", "20m">>
      [] f = "T2_SCL_20m.jp2" -> <<"T2", "SCL", "20m">>
      [] f = "T1_SCL_60m.jp2" -> <<"T1", "SCL", "60m">>
      [] f = "T1_SCL_10m.jp2" -> <<"T1", "SCL", "10m">>
      [] OTHER -> <<"T1", "B04", "20m">>

FileExt(f) == ".jp2"

\* Listings of a directory tree, in the filesystem's listing order.
Listings == {s \in UNION {[1..n -> Files] : n \in 0..MaxFiles} :
                \A i, j \in DOMAIN s : i # j => s[i] # s[j]}

\* Directories at the top level of an archive: the product's container, a
\* second and empty container, and a plain directory. The product's files are
\* under S2.SAFE when the archive has it, else under sub/S2N.SAFE when the
\* archive has sub, else loose at the top level.
TopDirs == {"S2.SAFE", "S2B.SAFE", "sub"}

\* The top level of an archive, in the filesystem's listing order.
DirListings == {s \in UNION {[1..n -> TopDirs] : n \in 0..MaxDirs} :
                   \A i, j \in DOMAIN s : i # j => s[i] # s[j]}

\* The extension of a top-level name, as fnmatch sees it (case kept).
DirExt(d) ==
    CASE d = "S2.SAFE" -> ".SAFE"
      [] d = "S2B.SAFE" -> ".SAFE"
      [] OTHER -> ""

\* os.path.join(extracted_path, d)
ChildPath(d) ==
    CASE d = "S2.SAFE" -> "S2_extracted/S2.SAFE"
      [] d = "S2B.SAFE" -> "S2_extracted/S2B.SAFE"
      [] OTHER -> "S2_extracted/sub"

\* The directory that holds the product's files, "." for the top level.
Home(dirs) ==
    IF \E i \in DOMAIN dirs : dirs[i] = "S2.SAFE" THEN "S2.SAFE"
    ELSE IF \E i \in DOMAIN dirs : dirs[i] = "sub" THEN "sub"
    ELSE "."

\* visualizer.py 7-20: SCL_CLASSES, as (code, label, colour) in source order.
SCL_CLASSES ==
    << <<0, "No Data", "black">>,
       <<1, "Saturated or Defective", "red">>,
       <<2, "Dark Area Pixels", "dimgray">>,
       <<3, "Cloud Shadows", "saddlebrown">>,
       <<4, "Vegetation", "green">>,
       <<5, "Not Vegetated", "darkkhaki">>,
       <<6, "Water", "blue">>,
       <<7, "Unclassified", "gray">>,
       <<8, "Cloud Medium Probability", "lightgray">>,
       <<9, "Cloud High Probability", "whitesmoke">>,
       <<10, "Thin Cirrus", "cyan">>,
       <<11, "Snow / Ice", "mediumpurple">> >>

\* The class codes there are.
ClassIds == {SCL_CLASSES[i][1] : i \in DOMAIN SCL_CLASSES}

\* The pixel values of a 2-D numeric grid, row by row.
Grids == UNION {[1..n -> ClassIds] : n \in 1..MaxPixels}

\* What a caller may pass as scl_data: a string, a 2-D numeric array, and
\* arrays that are not 2-D or not numeric.
DataKinds == {"str", "ndarray", "ndarray_1d", "ndarray_3d", "ndarray_str"}

\* What a caller may pass as output_image_path.
OutputPaths == {None, "", "viz.png"}

VARIABLES
    pc, caller, calls,
    \* main
    stages, output_viz_path, downloaded_product_path, scl, raisedBy,
    \* download_sentinel_imagery
    products, product_id, download_info, download_info_no_checksum,
    apiLog, acqRaisedAt, acqRet,
    \* the filesystem and the product
    disk, outDir, content, extracted, decompressions,
    \* generate_scene_classification_map
    product_path, dirExisted, product_root_path, patIdx, scl_file_path,
    extLog, extRaisedAt, extRet,
    \* visualize_scl_map, and what main and visualize_scl_map print
    scl_data, grid, output_image_path, pltLog, figs, renRaisedAt, printed

ctlVars == <<pc, caller, calls>>
mainVars == <<stages, output_viz_path, downloaded_product_path, scl, raisedBy>>
acqVars == <<products, product_id, download_info, download_info_no_checksum,
             apiLog, acqRaisedAt, acqRet>>
fsVars == <<disk, outDir, content, extracted, decompressions>>
extVars == <<product_path, dirExisted, product_root_path, patIdx, scl_file_path,
             extLog, extRaisedAt, extRet>>
renVars == <<scl_data, grid, output_image_path, pltLog, figs, renRaisedAt,
             printed>>
vars == <<ctlVars, mainVars, acqVars, fsVars, extVars, renVars>>

NoInfo == [kind |-> "None", haspath |-> FALSE, path |-> None]
NoPair == [data |-> None, meta |-> None]
NoContent == [known |-> FALSE, opened |-> FALSE, dirs |-> <<>>, files |-> <<>>]
NoDir == [present |-> FALSE, complete |-> FALSE, dirs |-> <<>>, files |-> <<>>]

AcqLocalsInit ==
    /\ products = <<>>
    /\ product_id = 0
    /\ download_info = NoInfo
    /\ download_info_no_checksum = NoInfo
    /\ apiLog = <<>>
    /\ acqRaisedAt = "none"
    /\ acqRet = None

ExtLocalsInit ==
    /\ product_path = None
    /\ dirExisted = FALSE
    /\ product_root_path = None
    /\ patIdx = 0
    /\ scl_file_path = None
    /\ extLog = <<>>
    /\ extRaisedAt = "none"
    /\ extRet = NoPair

RenLocalsInit ==
    /\ scl_data = None
    /\ output_image_path = None
    /\ grid = <<>>
    /\ pltLog = <<>>
    /\ figs = 0
    /\ renRaisedAt = "none"
    /\ printed = <<>>

\* The state when the process starts: nothing has run; the filesystem holds
\* whatever products earlier downloads left, and no extraction directory.
InitCommon ==
    /\ caller = "none"
    /\ calls = 0
    /\ stages = <<>>
    /\ output_viz_path = None
    /\ downloaded_product_path = None
    /\ scl = NoPair
    /\ raisedBy = "none"
    /\ AcqLocalsInit
    /\ disk \in [Paths -> {"absent", "file", "dir"}]
    /\ outDir \in BOOLEAN
    /\ content = NoContent
    /\ extracted = NoDir
    /\ decompressions = 0
    /\ ExtLocalsInit
    /\ RenLocalsInit

Init == InitCommon /\ pc = "main_start"

\* ------------------------------------------------------------------ main.py

\* Python truth value of a path string or None.
Truthy(p) == p # None /\ p # ""

\* main.py 41-46: parse the arguments, create the download directory.
MainStart ==
    /\ pc = "main_start"
    /\ caller' = "main"
    /\ \E o \in {"", "viz.png"} : output_viz_path' = o
    /\ \/ /\ outDir
          /\ pc' = "main_call_acquire"
          /\ UNCHANGED <<outDir, raisedBy>>
       \/ /\ ~outDir
          /\ outDir' = TRUE
          /\ pc' = "main_call_acquire"
          /\ UNCHANGED raisedBy
       \/ /\ ~outDir                      \* os.makedirs raises
          /\ raisedBy' = "main"
          /\ pc' = "crashed"
          /\ UNCHANGED outDir
    /\ UNCHANGED <<calls, stages, downloaded_product_path, scl, acqVars,
                   disk, content, extracted, decompressions, extVars, renVars>>

\* main.py 48-57: Step 1, the call of download_sentinel_imagery.
MainCallAcquire ==
    /\ pc = "main_call_acquire"
    /\ stages' = Append(stages, "acquire")
    /\ pc' = "acq_session"
    /\ UNCHANGED <<caller, calls, output_viz_path, downloaded_product_path, scl,
                   raisedBy, acqVars, fsVars, extVars, renVars>>

\* The guard of main.py 59.
MainPathGuard(p) == Truthy(p)

\* main.py 59-63 and 85-87: Step 2 only with a path.
MainAfterAcquire ==
    /\ pc = "main_after_acquire"
    /\ IF MainPathGuard(downloaded_product_path)
         THEN /\ printed' = Append(printed, "Successfully downloaded product to")
              /\ stages' = Append(stages, "extract")
              /\ product_path' = downloaded_product_path
              /\ pc' = "ext_exists"
         ELSE /\ printed' = Append(printed, "Failed to download Sentinel imagery.")
              /\ pc' = "done"
              /\ UNCHANGED <<stages, product_path>>
    /\ UNCHANGED <<caller, calls, output_viz_path, downloaded_product_path, scl,
                   raisedBy, acqVars, fsVars, dirExisted, product_root_path,
                   patIdx, scl_file_path, extLog, extRaisedAt, extRet, scl_data,
                   grid, output_image_path, pltLog, figs, renRaisedAt>>

\* Variant: render is called whatever extract returned.
MainSclGuardDropped(r) == TRUE

\* The guard of main.py 65.
MainSclGuard(r) == r.data # None /\ r.meta # None

\* main.py 65-74 and 82-84: Step 3 only with a grid and its metadata. The
\* pixel values the decoder read are not enumerated in a run of main (grid
\* stays empty): no line of main.py or of visualizer.py branches on them.
MainAfterExtract ==
    /\ pc = "main_after_extract"
    /\ IF MainSclGuard(scl)
         THEN /\ printed' = Append(printed, "Successfully generated SCL map data.")
              /\ stages' = Append(stages, "render")
              /\ scl_data' = scl.data
              /\ output_image_path' = output_viz_path
              /\ pc' = "ren_check"
         ELSE /\ printed' = Append(printed, "Failed to generate SCL map.")
              /\ pc' = "done"
              /\ UNCHANGED <<stages, scl_data, output_image_path>>
    /\ UNCHANGED <<caller, calls, output_viz_path, downloaded_product_path, scl,
                   raisedBy, acqVars, fsVars, extVars, grid, pltLog, figs,
                   renRaisedAt>>

\* main.py 75-80: the messages after visualize_scl_map returned; its
\* result is not bound and nothing of what it did is looked at.
MainAfterRender ==
    /\ pc = "main_after_render"
    /\ printed' = printed \o <<IF Truthy(output_viz_path)
                                 THEN "Visualization saved to"
                                 ELSE "Visualization displayed interactively.",
                               "Processing complete.">>
    /\ pc' = "done"
    /\ UNCHANGED <<caller, calls, mainVars, acqVars, fsVars, extVars, scl_data,
                   grid, output_image_path, pltLog, figs, renRaisedAt>>

\* ------------------------------------------------- sentinel_downloader.py

\* The calls acquire makes into the catalog client and the filesystem, as
\* they are logged: the operation, then its arguments and its result.
ApiCall(op, id, checksum) ==
    [op |-> op, id |-> id, checksum |-> checksum, path |-> None, found |-> FALSE]

FsCall(op, path, found) ==
    [op |-> op, id |-> 0, checksum |-> TRUE, path |-> path, found |-> found]

\* Variant: the session is opened before the try block.
AcqOnRaiseSessionOutside(site) ==
    IF site = "session" THEN "crashed" ELSE "acq_except"

\* The entry of download_sentinel_imagery from a direct caller
\* (sentinel_downloader.py 5), as the tests call it.
CallAcquire ==
    /\ pc = "idle"
    /\ calls < MaxCalls
    /\ calls' = calls + 1
    /\ caller' = "direct"
    /\ pc' = "acq_session"
    /\ UNCHANGED <<mainVars, acqVars, fsVars, extVars, renVars>>

\* sentinel_downloader.py 22 and 78: the try block holds every call.
AcqOnRaise(site) == "acq_except"

\* A call at `site` raises: control goes where the try statement sends it.
AcqRaise(site) ==
    /\ acqRaisedAt' = site
    /\ pc' = AcqOnRaise(site)
    /\ raisedBy' = IF AcqOnRaise(site) = "crashed" THEN "acquire" ELSE raisedBy

\* sentinel_downloader.py 24: api = SentinelAPI(user, password, url).
AcqSession ==
    /\ pc = "acq_session"
    /\ apiLog' = Append(apiLog, ApiCall("session", 0, TRUE))
    /\ \/ /\ pc' = "acq_makedirs"
          /\ UNCHANGED <<acqRaisedAt, raisedBy>>
       \/ AcqRaise("session")
    /\ UNCHANGED <<caller, calls, stages, output_viz_path, downloaded_product_path,
                   scl, products, product_id, download_info,
                   download_info_no_checksum, acqRet, fsVars, extVars, renVars>>

\* Variant: makedirs is called whether or not the directory exists.
MakesOutputDirAlways(present) == TRUE

\* sentinel_downloader.py 27: if not os.path.exists(output_path):
MakesOutputDir(present) == ~present

\* sentinel_downloader.py 27-28: create the output directory when absent.
AcqMakedirs ==
    /\ pc = "acq_makedirs"
    /\ IF MakesOutputDir(outDir)
         THEN /\ apiLog' = apiLog \o <<FsCall("exists", download_path, outDir),
                                       FsCall("makedirs", download_path, FALSE)>>
              /\ \/ /\ outDir' = TRUE
                    /\ pc' = "acq_query"
                    /\ UNCHANGED <<acqRaisedAt, raisedBy>>
                 \/ /\ AcqRaise("makedirs")
                    /\ UNCHANGED outDir
         ELSE /\ apiLog' = Append(apiLog, FsCall("exists", download_path, outDir))
              /\ pc' = "acq_query"
              /\ UNCHANGED <<outDir, acqRaisedAt, raisedBy>>
    /\ UNCHANGED <<caller, calls, stages, output_viz_path, downloaded_product_path,
                   scl, products, product_id, download_info,
                   download_info_no_checksum, acqRet, disk, content,
                   extracted, decompressions, extVars, renVars>>

\* sentinel_downloader.py 31-39: the one catalog query.
AcqQuery ==
    /\ pc = "acq_query"
    /\ apiLog' = Append(apiLog, ApiCall("query", 0, TRUE))
    /\ \/ /\ \E ps \in ProductSeqs : products' = ps
          /\ pc' = "acq_select"
          /\ UNCHANGED <<acqRaisedAt, raisedBy>>
       \/ /\ AcqRaise("query")
          /\ UNCHANGED products
    /\ UNCHANGED <<caller, calls, stages, output_viz_path, downloaded_product_path,
                   scl, product_id, download_info, download_info_no_checksum,
                   acqRet, fsVars, extVars, renVars>>

\* products.items(): the (identifier, ingestion timestamp) pairs in catalog order.
Items(ps) == [i \in DOMAIN ps |-> <<i, ps[i]>>]

\* key=lambda x: x[1]['ingestiondate']
SortKey(x) == x[2]

\* Variant: the sort without reverse=True.
SortPrecedesAsc(a, x) == SortKey(a) <= SortKey(x)

\* sentinel_downloader.py 43, reverse=True: a stays ahead of a later item x
\* when its key is not smaller (the sort is stable).
SortPrecedes(a, x) == SortKey(a) >= SortKey(x)

RECURSIVE SortInsert(_, _)
SortInsert(x, s) ==
    IF s = <<>> THEN <<x>>
    ELSE IF SortPrecedes(Head(s), x)
           THEN <<Head(s)>> \o SortInsert(x, Tail(s))
           ELSE <<x>> \o s

RECURSIVE SortedItems(_)
\* sorted(products.items(), key=..., reverse=True)
SortedItems(items) ==
    IF items = <<>> THEN <<>>
    ELSE SortInsert(items[Len(items)], SortedItems(SubSeq(items, 1, Len(items) - 1)))

\* sentinel_downloader.py 43-47: list(products_sorted.keys())[0]
SelectProduct(ps) == SortedItems(Items(ps))[1][1]

\* Variant: the output directory is returned when nothing matched.
NoProductsResultDir == download_path

\* sentinel_downloader.py 76: what acquire returns when nothing matched.
NoProductsResult == None

\* sentinel_downloader.py 41-51 and 74-76: select, or report no products.
AcqSelect ==
    /\ pc = "acq_select"
    /\ IF products # <<>>
         THEN /\ product_id' = SelectProduct(products)
              /\ pc' = "acq_download"
              /\ UNCHANGED acqRet
         ELSE /\ acqRet' = NoProductsResult
              /\ pc' = "acq_return"
              /\ UNCHANGED product_id
    /\ UNCHANGED <<caller, calls, mainVars, products, download_info,
                   download_info_no_checksum, apiLog, acqRaisedAt, fsVars,
                   extVars, renVars>>

\* What api.download may return: nothing, a record without a path, or a
\* record with a path.
Infos == {NoInfo, [kind |-> "dict", haspath |-> FALSE, path |-> None]}
           \cup {[kind |-> "dict", haspath |-> TRUE, path |-> p] : p \in Paths}

\* The file a download leaves on disk.
Written(info, written) ==
    IF written /\ info.haspath /\ disk[info.path] = "absent"
      THEN [disk EXCEPT ![info.path] = "file"]
      ELSE disk

\* Variant: the result of a download is never accepted.
DownloadOkNever(info) == FALSE

\* sentinel_downloader.py 58 and 67: the record is usable and its path exists.
DownloadOk(info) ==
    /\ info.kind # "None"
    /\ info.haspath
    /\ disk[info.path] # "absent"

\* The os.path.exists call of lines 58 and 67, made only when the record is
\* there and holds a path (the and-chain stops at its first false operand).
ExistsLogged(info) ==
    IF info.kind # "None" /\ info.haspath
      THEN <<FsCall("exists", info.path, disk[info.path] # "absent")>>
      ELSE <<>>

\* Variant: the fallback call without checksum=False.
FallbackChecksumDefault == TRUE

\* sentinel_downloader.py 66: the fallback's checksum argument.
FallbackChecksum == FALSE

\* sentinel_downloader.py 55: api.download(product_id, directory_path=output_path)
AcqDownload ==
    /\ pc = "acq_download"
    /\ apiLog' = Append(apiLog, ApiCall("download", product_id, TRUE))
    /\ \/ /\ \E info \in Infos, written \in BOOLEAN :
               /\ written => info.haspath
               /\ download_info' = info
               /\ disk' = Written(info, written)
          /\ pc' = "acq_check"
          /\ UNCHANGED <<acqRaisedAt, raisedBy>>
       \/ /\ AcqRaise("download")
          /\ UNCHANGED <<download_info, disk>>
    /\ UNCHANGED <<caller, calls, stages, output_viz_path, downloaded_product_path,
                   scl, products, product_id, download_info_no_checksum, acqRet,
                   outDir, content, extracted, decompressions, extVars, renVars>>

\* sentinel_downloader.py 58-64: return the path, or go on to the fallback.
AcqCheck ==
    /\ pc = "acq_check"
    /\ apiLog' = apiLog \o ExistsLogged(download_info)
    /\ IF DownloadOk(download_info)
         THEN /\ acqRet' = download_info.path
              /\ pc' = "acq_return"
         ELSE /\ pc' = "acq_download2"
              /\ UNCHANGED acqRet
    /\ UNCHANGED <<caller, calls, mainVars, products, product_id, download_info,
                   download_info_no_checksum, acqRaisedAt, fsVars,
                   extVars, renVars>>

\* sentinel_downloader.py 66: api.download(..., checksum=False)
AcqDownload2 ==
    /\ pc = "acq_download2"
    /\ apiLog' = Append(apiLog, ApiCall("download", product_id, FallbackChecksum))
    /\ \/ /\ \E info \in Infos, written \in BOOLEAN :
               /\ written => info.haspath
               /\ download_info_no_checksum' = info
               /\ disk' = Written(info, written)
          /\ pc' = "acq_check2"
          /\ UNCHANGED <<acqRaisedAt, raisedBy>>
       \/ /\ AcqRaise("download2")
          /\ UNCHANGED <<download_info_no_checksum, disk>>
    /\ UNCHANGED <<caller, calls, stages, output_viz_path, downloaded_product_path,
                   scl, products, product_id, download_info, acqRet,
                   outDir, content, extracted, decompressions, extVars, renVars>>

\* sentinel_downloader.py 67-72: return the fallback's path, or None.
AcqCheck2 ==
    /\ pc = "acq_check2"
    /\ acqRet' = IF DownloadOk(download_info_no_checksum)
                   THEN download_info_no_checksum.path
                   ELSE None
    /\ apiLog' = apiLog \o ExistsLogged(download_info_no_checksum)
    /\ pc' = "acq_return"
    /\ UNCHANGED <<caller, calls, mainVars, products, product_id, download_info,
                   download_info_no_checksum, acqRaisedAt, fsVars,
                   extVars, renVars>>

\* sentinel_downloader.py 78-80: except Exception: return None.
AcqExcept ==
    /\ pc = "acq_except"
    /\ acqRet' = None
    /\ pc' = "acq_return"
    /\ UNCHANGED <<caller, calls, mainVars, products, product_id, download_info,
                   download_info_no_checksum, apiLog, acqRaisedAt, fsVars,
                   extVars, renVars>>

\* The return to the caller (main.py 49): the result is bound, the locals
\* are gone.
AcqReturn ==
    /\ pc = "acq_return"
    /\ downloaded_product_path' = acqRet
    /\ pc' = IF caller = "main" THEN "main_after_acquire" ELSE "idle"
    /\ products' = <<>>
    /\ product_id' = 0
    /\ download_info' = NoInfo
    /\ download_info_no_checksum' = NoInfo
    /\ apiLog' = <<>>
    /\ acqRaisedAt' = "none"
    /\ acqRet' = None
    /\ UNCHANGED <<caller, calls, stages, output_viz_path, scl, raisedBy,
                   fsVars, extVars, renVars>>

\* --------------------------------------------------- scene_classifier.py

ExtCall(op, arg) == [op |-> op, arg |-> arg]

\* What the product holds, fixed from the first time extract looks at it:
\* the files; the directories at the top level of the archive are fixed from
\* the first time the archive is decompressed.
Contents == [known : {TRUE}, opened : {FALSE}, dirs : {<<>>}, files : Listings]

\* The archive as a decompression finds it.
Opened(c) ==
    IF c.opened THEN {c}
    ELSE {[c EXCEPT !.opened = TRUE, !.dirs = d] : d \in DirListings}

\* The entry of generate_scene_classification_map from a direct caller
\* (scene_classifier.py 7), as the tests and the __main__ block call it.
CallExtract ==
    /\ pc = "idle"
    /\ calls < MaxCalls
    /\ calls' = calls + 1
    /\ caller' = "direct"
    /\ \E p \in Paths : product_path' = p
    /\ pc' = "ext_exists"
    /\ UNCHANGED <<mainVars, acqVars, fsVars, dirExisted, product_root_path,
                   patIdx, scl_file_path, extLog, extRaisedAt, extRet, renVars>>

\* Variant: the raster is opened and read after the try block.
ExtOnRaiseDecodeOutside(site) ==
    IF site \in {"open", "read"} THEN "crashed" ELSE "ext_except"

\* scene_classifier.py 24 and 97: the try block holds every call.
ExtOnRaise(site) == "ext_except"

ExtRaise(site) ==
    /\ extRaisedAt' = site
    /\ pc' = ExtOnRaise(site)
    /\ raisedBy' = IF ExtOnRaise(site) = "crashed" THEN "extract" ELSE raisedBy

\* Variant: the existence check left out.
PathExistsUnchecked(p) == TRUE

\* scene_classifier.py 25: os.path.exists(product_path)
PathExists(p) == p \in DOMAIN disk /\ disk[p] # "absent"

\* scene_classifier.py 25-27: the product path must exist.
ExtExists ==
    /\ pc = "ext_exists"
    /\ extLog' = Append(extLog, ExtCall("exists", product_path))
    /\ IF ~PathExists(product_path)
         THEN /\ extRet' = NoPair
              /\ pc' = "ext_return"
         ELSE /\ pc' = "ext_kind"
              /\ UNCHANGED extRet
    /\ UNCHANGED <<caller, calls, mainVars, acqVars, fsVars, product_path,
                   dirExisted, product_root_path, patIdx, scl_file_path,
                   extRaisedAt, renVars>>

\* os.path.join(os.path.dirname(p), base_name + "_extracted"), lines 31-32.
ExtractedPath(p) == "S2_extracted"

\* scene_classifier.py 29, 54-58: archive, product directory, or neither.
ExtKind ==
    /\ pc = "ext_kind"
    /\ IF EndsWithLower(product_path, ".zip")
         THEN /\ pc' = "ext_zip_exists"
              /\ UNCHANGED <<product_root_path, patIdx, extRet>>
         ELSE IF disk[product_path] = "dir" /\ EndsWithLower(product_path, ".safe")
           THEN /\ product_root_path' = product_path
                /\ patIdx' = 1
                /\ pc' = "ext_glob"
                /\ UNCHANGED extRet
           ELSE /\ extRet' = NoPair
                /\ pc' = "ext_return"
                /\ UNCHANGED <<product_root_path, patIdx>>
    /\ IF content.known
         THEN UNCHANGED content
         ELSE \E c \in Contents : content' = c
    /\ UNCHANGED <<caller, calls, mainVars, acqVars, disk, outDir, extracted,
                   decompressions, product_path, dirExisted, scl_file_path,
                   extLog, extRaisedAt, renVars>>

\* Variant: the archive is extracted on every invocation.
NeedsExtractionAlways(present) == TRUE

\* scene_classifier.py 34: extract only into a directory that is not there.
NeedsExtraction(present) == ~present

\* scene_classifier.py 31-34, 41-42: does the extraction directory exist?
ExtZipExists ==
    /\ pc = "ext_zip_exists"
    /\ extLog' = Append(extLog, ExtCall("exists", ExtractedPath(product_path)))
    /\ dirExisted' = extracted.present
    /\ pc' = IF NeedsExtraction(extracted.present)
               THEN "ext_makedirs" ELSE "ext_glob_safe"
    /\ UNCHANGED <<caller, calls, mainVars, acqVars, fsVars, product_path,
                   product_root_path, patIdx, scl_file_path, extRaisedAt,
                   extRet, renVars>>

\* scene_classifier.py 35: os.makedirs(extracted_path, exist_ok=True)
ExtMakedirs ==
    /\ pc = "ext_makedirs"
    /\ extLog' = Append(extLog, ExtCall("makedirs", ExtractedPath(product_path)))
    /\ \/ /\ extracted' = IF extracted.present THEN extracted
                          ELSE [NoDir EXCEPT !.present = TRUE]
          /\ pc' = "ext_zip_open"
          /\ UNCHANGED <<extRaisedAt, raisedBy>>
       \/ /\ ~extracted.present
          /\ ExtRaise("makedirs")
          /\ UNCHANGED extracted
    /\ UNCHANGED <<caller, calls, stages, output_viz_path, downloaded_product_path,
                   scl, acqVars, disk, outDir, content, decompressions,
                   product_path, dirExisted, product_root_path, patIdx,
                   scl_file_path, extRet, renVars>>

\* scene_classifier.py 37: zipfile.ZipFile(product_path, 'r'); a directory or
\* a file that is no archive raises.
ExtZipOpen ==
    /\ pc = "ext_zip_open"
    /\ extLog' = Append(extLog, ExtCall("ZipFile", product_path))
    /\ \/ /\ disk[product_path] = "file"
          /\ pc' = "ext_extractall"
          /\ UNCHANGED <<extRaisedAt, raisedBy>>
       \/ ExtRaise("ZipFile")
    /\ UNCHANGED <<caller, calls, stages, output_viz_path, downloaded_product_path,
                   scl, acqVars, fsVars, product_path, dirExisted,
                   product_root_path, patIdx, scl_file_path, extRet, renVars>>

\* What a decompression that raised part-way leaves in the directory.
Partial(c) ==
    {[present |-> TRUE, complete |-> FALSE,
      dirs |-> IF k > 0 THEN c.dirs ELSE <<>>,
      files |-> SubSeq(c.files, 1, k)] : k \in 0..(Len(c.files) - 1)}
      \cup {[present |-> TRUE, complete |-> FALSE, dirs |-> <<>>, files |-> <<>>]}

\* scene_classifier.py 38-40: zip_ref.extractall(extracted_path)
ExtExtractall ==
    /\ pc = "ext_extractall"
    /\ extLog' = Append(extLog, ExtCall("extractall", ExtractedPath(product_path)))
    /\ decompressions' = decompressions + 1
    /\ \E c \in Opened(content) :
         /\ content' = c
         /\ \/ /\ extracted' = [present |-> TRUE, complete |-> TRUE,
                                dirs |-> c.dirs, files |-> c.files]
               /\ pc' = "ext_glob_safe"
               /\ UNCHANGED <<extRaisedAt, raisedBy>>
            \/ /\ \E d \in Partial(c) : extracted' = d
               /\ ExtRaise("extractall")
    /\ UNCHANGED <<caller, calls, stages, output_viz_path, downloaded_product_path,
                   scl, acqVars, disk, outDir, product_path, dirExisted,
                   product_root_path, patIdx, scl_file_path, extRet, renVars>>

\* glob.glob(os.path.join(extracted_path, '*.SAFE')), line 46: the direct
\* children whose name ends in .SAFE, in listing order.
GlobSafe(dirs) == SelectSeq(dirs, LAMBDA d : DirExt(d) = ".SAFE")

\* Variant: safe_dirs[-1].
ChosenSafeDirLast(safe_dirs) == safe_dirs[Len(safe_dirs)]

\* scene_classifier.py 52: safe_dirs[0]
ChosenSafeDir(safe_dirs) == safe_dirs[1]

\* scene_classifier.py 46-52: the first .SAFE child, else the directory itself.
ExtGlobSafe ==
    /\ pc = "ext_glob_safe"
    /\ extLog' = Append(extLog, ExtCall("glob", "*.SAFE"))
    /\ LET safe_dirs == GlobSafe(extracted.dirs) IN
         product_root_path' = IF safe_dirs = <<>>
                                THEN ExtractedPath(product_path)
                                ELSE ChildPath(ChosenSafeDir(safe_dirs))
    /\ patIdx' = 1
    /\ pc' = "ext_glob"
    /\ UNCHANGED <<caller, calls, mainVars, acqVars, fsVars, product_path,
                   dirExisted, scl_file_path, extRaisedAt, extRet, renVars>>

\* Variant: the 60m pattern listed ahead of the 20m pattern.
scl_file_patterns_swapped == <<"*_SCL_60m.jp2", "*_SCL_20m.jp2", "*_SCL_*.jp2">>

\* scene_classifier.py 64-68: the patterns' file-name parts, in order.
scl_file_patterns == <<"*_SCL_20m.jp2", "*_SCL_60m.jp2", "*_SCL_*.jp2">>

\* fnmatch of a file name against one of the three patterns.
Match(pattern, f) ==
    LET t == Toks(f) IN
    /\ FileExt(f) = ".jp2"
    /\ CASE pattern = "*_SCL_20m.jp2" ->
              Len(t) >= 3 /\ t[Len(t) - 1] = "SCL" /\ t[Len(t)] = "20m"
         [] pattern = "*_SCL_60m.jp2" ->
              Len(t) >= 3 /\ t[Len(t) - 1] = "SCL" /\ t[Len(t)] = "60m"
         [] OTHER -> \E i \in 2..(Len(t) - 1) : t[i] = "SCL"

\* The files anywhere under the product root, in listing order: all of them
\* under a .SAFE product directory or under the extraction directory, and
\* under a child of the extraction directory those it holds.
Tree ==
    IF product_root_path = product_path THEN content.files
    ELSE IF product_root_path = ExtractedPath(product_path) THEN extracted.files
    ELSE IF product_root_path = ChildPath(Home(extracted.dirs)) THEN extracted.files
    ELSE <<>>

\* glob.glob(pattern, recursive=True), line 72.
Glob(pattern) == SelectSeq(Tree, LAMBDA f : Match(pattern, f))

\* scene_classifier.py 71-76: one turn of the loop over the patterns.
ExtGlob ==
    /\ pc = "ext_glob"
    /\ patIdx \in 1..Len(scl_file_patterns)
    /\ extLog' = Append(extLog, ExtCall("glob", scl_file_patterns[patIdx]))
    /\ LET scl_files == Glob(scl_file_patterns[patIdx]) IN
         IF scl_files # <<>>
           THEN /\ scl_file_path' = scl_files[1]
                /\ pc' = "ext_open"
                /\ UNCHANGED patIdx
           ELSE /\ patIdx' = patIdx + 1
                /\ pc' = IF patIdx < Len(scl_file_patterns)
                           THEN "ext_glob" ELSE "ext_not_found"
                /\ UNCHANGED scl_file_path
    /\ UNCHANGED <<caller, calls, mainVars, acqVars, fsVars, product_path,
                   dirExisted, product_root_path, extRaisedAt, extRet, renVars>>

\* scene_classifier.py 78-80: no pattern matched.
ExtNotFound ==
    /\ pc = "ext_not_found"
    /\ extRet' = NoPair
    /\ pc' = "ext_return"
    /\ UNCHANGED <<caller, calls, mainVars, acqVars, fsVars, product_path,
                   dirExisted, product_root_path, patIdx, scl_file_path, extLog,
                   extRaisedAt, renVars>>

\* scene_classifier.py 83: rasterio.open(scl_file_path)
ExtOpen ==
    /\ pc = "ext_open"
    /\ extLog' = Append(extLog, ExtCall("open", scl_file_path))
    /\ \/ /\ pc' = "ext_read"
          /\ UNCHANGED <<extRaisedAt, raisedBy>>
       \/ ExtRaise("open")
    /\ UNCHANGED <<caller, calls, stages, output_viz_path, downloaded_product_path,
                   scl, acqVars, fsVars, product_path, dirExisted,
                   product_root_path, patIdx, scl_file_path, extRet, renVars>>

\* scene_classifier.py 84-95: read band 1, copy and update the metadata.
ExtRead ==
    /\ pc = "ext_read"
    /\ extLog' = Append(extLog, ExtCall("read", scl_file_path))
    /\ \/ /\ extRet' = [data |-> "ndarray", meta |-> "meta"]
          /\ pc' = "ext_return"
          /\ UNCHANGED <<extRaisedAt, raisedBy>>
       \/ /\ ExtRaise("read")
          /\ UNCHANGED extRet
    /\ UNCHANGED <<caller, calls, stages, output_viz_path, downloaded_product_path,
                   scl, acqVars, fsVars, product_path, dirExisted,
                   product_root_path, patIdx, scl_file_path, renVars>>

\* scene_classifier.py 97-99: except Exception: return None, None.
ExtExcept ==
    /\ pc = "ext_except"
    /\ extRet' = NoPair
    /\ pc' = "ext_return"
    /\ UNCHANGED <<caller, calls, mainVars, acqVars, fsVars, product_path,
                   dirExisted, product_root_path, patIdx, scl_file_path, extLog,
                   extRaisedAt, renVars>>

\* The return to the caller (main.py 63): the pair is bound, the locals are gone.
ExtReturn ==
    /\ pc = "ext_return"
    /\ scl' = extRet
    /\ pc' = IF caller = "main" THEN "main_after_extract" ELSE "idle"
    /\ product_path' = None
    /\ dirExisted' = FALSE
    /\ product_root_path' = None
    /\ patIdx' = 0
    /\ scl_file_path' = None
    /\ extLog' = <<>>
    /\ extRaisedAt' = "none"
    /\ extRet' = NoPair
    /\ UNCHANGED <<caller, calls, stages, output_viz_path, downloaded_product_path,
                   raisedBy, acqVars, fsVars, renVars>>

\* --------------------------------------------------------- visualizer.py

RECURSIVE ClassInsert(_, _)
\* The place of item x in a list sorted by ascending code.
ClassInsert(x, s) ==
    IF s = <<>> THEN <<x>>
    ELSE IF Head(s)[1] <= x[1]
           THEN <<Head(s)>> \o ClassInsert(x, Tail(s))
           ELSE <<x>> \o s

RECURSIVE SortedClasses(_)
\* sorted(items): ascending by code.
SortedClasses(items) ==
    IF items = <<>> THEN <<>>
    ELSE ClassInsert(items[Len(items)],
                     SortedClasses(SubSeq(items, 1, Len(items) - 1)))

\* visualizer.py 40-44
sorted_classes == SortedClasses(SCL_CLASSES)
class_ids == [i \in DOMAIN sorted_classes |-> sorted_classes[i][1]]
class_labels == [i \in DOMAIN sorted_classes |-> sorted_classes[i][2]]
colors == [i \in DOMAIN sorted_classes |-> sorted_classes[i][3]]

\* mpatches.Patch(color=colors[i], label=f"{class_ids[i]}: {class_labels[i]}")
Patch(i) == [color |-> colors[i], id |-> class_ids[i], label |-> class_labels[i]]

\* Variant: a legend entry only for the codes that occur in the grid.
patches_present ==
    SelectSeq([i \in 1..Len(colors) |-> Patch(i)],
              LAMBDA h : \E k \in DOMAIN grid : grid[k] = h.id)

\* visualizer.py 52-53: one patch per class, in the order of the sorted codes.
patches == [i \in 1..Len(colors) |-> Patch(i)]

\* A call into the plotting client as it is logged: the operation and the
\* argument that matters (the legend's handles, the path of savefig).
PltCall(op, arg) == [op |-> op, arg |-> arg]

\* The entry of visualize_scl_map from a direct caller (visualizer.py 22),
\* as the tests and the __main__ block call it.
CallRender ==
    /\ pc = "idle"
    /\ calls < MaxCalls
    /\ calls' = calls + 1
    /\ caller' = "direct"
    /\ \E d \in DataKinds :
         /\ scl_data' = d
         /\ IF d = "ndarray" THEN \E g \in Grids : grid' = g ELSE grid' = <<>>
    /\ \E o \in OutputPaths : output_image_path' = o
    /\ pltLog' = <<>>
    /\ printed' = <<>>
    /\ renRaisedAt' = "none"
    /\ pc' = "ren_check"
    /\ UNCHANGED <<mainVars, acqVars, fsVars, extVars, figs>>

\* Variant: the except clause of savefig returns at once.
RenOnRaiseSaveReturns(site) == IF site = "savefig" THEN "ren_return" ELSE "crashed"

\* visualizer.py 72-80: only savefig sits in a try block.
RenOnRaise(site) == IF site = "savefig" THEN "ren_except" ELSE "crashed"

RenRaise(site) ==
    /\ renRaisedAt' = site
    /\ pc' = RenOnRaise(site)
    /\ raisedBy' = IF RenOnRaise(site) = "crashed" THEN "render" ELSE raisedBy

\* Variant: the type check left out.
IsNdarrayUnchecked(d) == TRUE

\* isinstance(scl_data, np.ndarray), visualizer.py 34.
IsNdarray(d) == d \in {"ndarray", "ndarray_1d", "ndarray_3d", "ndarray_str"}

\* visualizer.py 34-36: the type check.
RenCheck ==
    /\ pc = "ren_check"
    /\ IF ~IsNdarray(scl_data)
         THEN /\ printed' = Append(printed, "Error: scl_data must be a NumPy array.")
              /\ pc' = "ren_return"
         ELSE /\ pc' = "ren_draw"
              /\ UNCHANGED printed
    /\ UNCHANGED <<caller, calls, mainVars, acqVars, fsVars, extVars, scl_data,
                   grid, output_image_path, pltLog, figs, renRaisedAt>>

\* visualizer.py 56-70: the plotting calls before the output, in order.
DrawCalls == <<"subplots", "imshow", "set_title", "set_xlabel", "set_ylabel",
               "legend", "tight_layout">>

\* The argument of a plotting call of lines 56-70 that the log keeps.
DrawArg(call) == IF call = "legend" THEN patches ELSE <<>>

\* One plotting call of visualizer.py 56-70.
RenDraw ==
    /\ pc = "ren_draw"
    /\ Len(pltLog) < Len(DrawCalls)
    /\ LET call == DrawCalls[Len(pltLog) + 1] IN
         /\ pltLog' = Append(pltLog, PltCall(call, DrawArg(call)))
         /\ \/ /\ figs' = IF call = "subplots" THEN figs + 1 ELSE figs
               /\ pc' = IF Len(pltLog) + 1 = Len(DrawCalls)
                          THEN "ren_output" ELSE "ren_draw"
               /\ UNCHANGED <<raisedBy, renRaisedAt>>
            \/ /\ RenRaise(call)
               /\ UNCHANGED figs
    /\ UNCHANGED <<caller, calls, stages, output_viz_path, downloaded_product_path,
                   scl, acqVars, fsVars, extVars, scl_data, grid,
                   output_image_path, printed>>

\* Variant: the figure is shown whether or not a path was given.
SavesToFileNever(p) == FALSE

\* visualizer.py 73: if output_image_path:
SavesToFile(p) == Truthy(p)

\* visualizer.py 72-80: save to the path and report it, or show.
RenOutput ==
    /\ pc = "ren_output"
    /\ IF SavesToFile(output_image_path)
         THEN /\ pltLog' = Append(pltLog, PltCall("savefig", <<output_image_path>>))
              /\ \/ /\ printed' = Append(printed, "SCL map saved to")
                    /\ pc' = "ren_close"
                    /\ UNCHANGED <<raisedBy, renRaisedAt>>
                 \/ /\ RenRaise("savefig")
                    /\ UNCHANGED printed
         ELSE /\ pltLog' = Append(pltLog, PltCall("show", <<>>))
              /\ \/ /\ pc' = "ren_close"
                    /\ UNCHANGED <<raisedBy, renRaisedAt>>
                 \/ RenRaise("show")
              /\ UNCHANGED printed
    /\ UNCHANGED <<caller, calls, stages, output_viz_path, downloaded_product_path,
                   scl, acqVars, fsVars, extVars, scl_data, grid,
                   output_image_path, figs>>

\* visualizer.py 77-78: except Exception as e: print(f"Error saving SCL map: {e}")
RenExcept ==
    /\ pc = "ren_except"
    /\ printed' = Append(printed, "Error saving SCL map")
    /\ pc' = "ren_close"
    /\ UNCHANGED <<caller, calls, mainVars, acqVars, fsVars, extVars, scl_data,
                   grid, output_image_path, pltLog, figs, renRaisedAt>>

\* visualizer.py 82: plt.close(fig)
RenClose ==
    /\ pc = "ren_close"
    /\ pltLog' = Append(pltLog, PltCall("close", <<>>))
    /\ \/ /\ figs' = figs - 1
          /\ pc' = "ren_return"
          /\ UNCHANGED <<raisedBy, renRaisedAt>>
       \/ /\ RenRaise("close")
          /\ UNCHANGED figs
    /\ UNCHANGED <<caller, calls, stages, output_viz_path, downloaded_product_path,
                   scl, acqVars, fsVars, extVars, scl_data, grid,
                   output_image_path, printed>>

\* The return to the caller (main.py 74); visualize_scl_map returns None on
\* every path, and its locals are gone.
RenReturn ==
    /\ pc = "ren_return"
    /\ pc' = IF caller = "main" THEN "main_after_render" ELSE "idle"
    /\ scl_data' = None
    /\ grid' = <<>>
    /\ output_image_path' = None
    /\ pltLog' = <<>>
    /\ UNCHANGED <<caller, calls, mainVars, acqVars, fsVars, extVars, figs,
                   printed, renRaisedAt>>

\* ---------------------------------------------------------- specifications

AcquireNext ==
    \/ AcqSession \/ AcqMakedirs \/ AcqQuery \/ AcqSelect \/ AcqDownload
    \/ AcqCheck \/ AcqDownload2 \/ AcqCheck2 \/ AcqExcept \/ AcqReturn

ExtractNext ==
    \/ ExtExists \/ ExtKind \/ ExtZipExists \/ ExtMakedirs \/ ExtZipOpen
    \/ ExtExtractall \/ ExtGlobSafe \/ ExtGlob \/ ExtNotFound \/ ExtOpen
    \/ ExtRead \/ ExtExcept \/ ExtReturn

RenderNext ==
    \/ RenCheck \/ RenDraw \/ RenOutput \/ RenExcept \/ RenClose \/ RenReturn

MainNext ==
    \/ MainStart \/ MainCallAcquire \/ MainAfterAcquire \/ MainAfterExtract
    \/ MainAfterRender

\* One run of the orchestrator, main.py 14-87.
Next == MainNext \/ AcquireNext \/ ExtractNext \/ RenderNext

Spec == Init /\ [][Next]_vars

\* A caller that invokes acquire over and over on one filesystem.
InitAcquire == InitCommon /\ pc = "idle"

NextAcquire == CallAcquire \/ AcquireNext

SpecAcquire == InitAcquire /\ [][NextAcquire]_vars

\* A caller that invokes extract over and over on one filesystem; extract
\* does not look at the download directory, which starts absent.
InitExtract == InitCommon /\ pc = "idle" /\ ~outDir

NextExtract == CallExtract \/ ExtractNext

SpecExtract == InitExtract /\ [][NextExtract]_vars

\* A caller that invokes render over and over in one process; render does
\* not touch the products on disk, the filesystem starts empty.
InitRender ==
    /\ InitCommon
    /\ pc = "idle"
    /\ disk = [p \in Paths |-> "absent"]
    /\ ~outDir

NextRender == CallRender \/ RenderNext

SpecRender == InitRender /\ [][NextRender]_vars

\* ------------------------------------------------------------------ claims

AcqPcs == {"acq_session", "acq_makedirs", "acq_query", "acq_select",
           "acq_download", "acq_check", "acq_download2", "acq_check2",
           "acq_except", "acq_return"}
ExtPcs == {"ext_exists", "ext_kind", "ext_zip_exists", "ext_makedirs",
           "ext_zip_open", "ext_extractall", "ext_glob_safe", "ext_glob",
           "ext_not_found", "ext_open", "ext_read", "ext_except", "ext_return"}
RenPcs == {"ren_check", "ren_draw", "ren_output", "ren_except", "ren_close",
           "ren_return"}

\* C1: in a run of main the stages are invoked in the order acquire, extract,
\* render, each at most once and each only after the stage before it has
\* returned; extract only with the path acquire returned, render only with
\* the grid and the metadata extract returned; after a failed acquire neither
\* extract nor render is invoked, after a failed extract render is not.
C1_StagesInOrder ==
    /\ stages \in {<<>>, <<"acquire">>, <<"acquire", "extract">>,
                   <<"acquire", "extract", "render">>}
    /\ pc \in AcqPcs => stages = <<"acquire">>
    /\ pc \in ExtPcs => stages = <<"acquire", "extract">>
    /\ pc \in RenPcs => stages = <<"acquire", "extract", "render">>
    /\ Len(stages) >= 2 => downloaded_product_path \in Paths
    /\ Len(stages) = 3 => scl.data # None /\ scl.meta # None
    /\ (pc = "done" /\ downloaded_product_path = None) => stages = <<"acquire">>
    /\ (pc = "done" /\ (scl.data = None \/ scl.meta = None)) => Len(stages) <= 2

\* A run that went through all three stages.
C1_Witness ==
    /\ pc = "done"
    /\ stages = <<"acquire", "extract", "render">>
    /\ downloaded_product_path \in Paths
    /\ scl.data # None

\* C2: the entry acquire selects and passes to download has an ingestion
\* timestamp at least that of every entry the query returned, whatever the
\* order the catalog returned them in.
C2_SelectsLatest ==
    /\ pc = "acq_download" =>
         /\ product_id \in DOMAIN products
         /\ \A i \in DOMAIN products : products[product_id] >= products[i]
    /\ \A k \in DOMAIN apiLog :
         apiLog[k].op = "download" =>
           /\ apiLog[k].id \in DOMAIN products
           /\ \A i \in DOMAIN products : products[apiLog[k].id] >= products[i]

\* The latest entry is not the first the catalog returned, and was downloaded.
C2_Witness ==
    /\ pc = "acq_check"
    /\ Len(products) >= 2
    /\ products[1] < products[2]
    /\ apiLog[Len(apiLog)].op = "download"
    /\ apiLog[Len(apiLog)].id = 2

Downloads == SelectSeq(apiLog, LAMBDA c : c.op = "download")

\* The os.path.exists call that follows the verified download said no.
FirstReportedMissing ==
    \E k \in DOMAIN apiLog :
        /\ k > 1
        /\ apiLog[k].op = "exists" /\ ~apiLog[k].found
        /\ apiLog[k - 1].op = "download" /\ apiLog[k - 1].checksum

\* The os.path.exists call that follows the fallback download said yes.
FallbackFound ==
    /\ Len(apiLog) > 1
    /\ apiLog[Len(apiLog)].op = "exists" /\ apiLog[Len(apiLog)].found
    /\ apiLog[Len(apiLog)].path = download_info_no_checksum.path
    /\ apiLog[Len(apiLog) - 1].op = "download"
    /\ ~apiLog[Len(apiLog) - 1].checksum

\* C3: when the verified download reported a path that is not on disk,
\* acquire has made, when it returns, exactly one more download call, for the
\* same product and with verification disabled, and it returns that call's
\* path if and only if that path exists on disk, and None otherwise.
C3_OneFallbackAfterMissingPath ==
    (pc = "acq_return" /\ FirstReportedMissing) =>
        /\ Len(Downloads) = 2
        /\ Downloads[1].checksum /\ ~Downloads[2].checksum
        /\ Downloads[2].id = Downloads[1].id
        /\ FallbackFound => acqRet = download_info_no_checksum.path
        /\ ~FallbackFound => acqRet = None

\* The verified download's path was missing and the fallback's path is returned.
C3_Witness ==
    /\ pc = "acq_return"
    /\ FirstReportedMissing
    /\ FallbackFound
    /\ acqRet \in Paths

\* The verified download was issued and did not yield a file that exists.
FirstAttemptFailed ==
    /\ \E k \in DOMAIN apiLog : apiLog[k].op = "download" /\ apiLog[k].checksum
    /\ ~\E k \in DOMAIN apiLog :
          /\ k > 1
          /\ apiLog[k].op = "exists" /\ apiLog[k].found
          /\ apiLog[k - 1].op = "download" /\ apiLog[k - 1].checksum

\* C4: whenever the verified download fails, for whatever reason (no result,
\* a path that is not on disk, or an error raised by the client), acquire
\* makes one fallback download with verification disabled, and returns
\* failure only if the fallback fails too.
C4_FallbackOnEveryFailure ==
    (pc = "acq_return" /\ FirstAttemptFailed) =>
        /\ Len(SelectSeq(apiLog, LAMBDA c : c.op = "download" /\ ~c.checksum)) = 1
        /\ acqRet = None => ~FallbackFound

\* The query returned, and returned no entry.
QueryReturnedNothing ==
    /\ \E k \in DOMAIN apiLog : apiLog[k].op = "query"
    /\ pc # "acq_query"
    /\ acqRaisedAt # "query"
    /\ products = <<>>

\* C5: when the query returns zero entries, acquire issues no download call,
\* neither the verified one nor the fallback, and returns None.
C5_NoProductsNoDownload ==
    QueryReturnedNothing =>
        /\ \A k \in DOMAIN apiLog : apiLog[k].op # "download"
        /\ pc \in {"acq_select", "acq_return"}
        /\ pc = "acq_return" => acqRet = None

\* Acquire is about to return after an empty query result.
C5_Witness ==
    /\ pc = "acq_return"
    /\ QueryReturnedNothing
    /\ apiLog[Len(apiLog)].op = "query"

\* C6: acquire never raises to its caller: after an error raised while opening
\* the session, querying or downloading (either attempt) it returns None; and
\* when the session could not be opened no query and no download is issued.
C6_AcquireNeverRaises ==
    /\ raisedBy # "acquire"
    /\ (pc = "acq_return" /\ acqRaisedAt # "none") => acqRet = None
    /\ acqRaisedAt = "session" =>
         \A k \in DOMAIN apiLog : apiLog[k].op \notin {"query", "download"}

\* Acquire returns None after the session could not be opened.
C6_Witness ==
    /\ pc = "acq_return"
    /\ acqRaisedAt = "session"
    /\ acqRet = None

\* The globs of the classification-file patterns, in the order they were made.
PatternGlobs == SelectSeq(extLog, LAMBDA c : c.op = "glob" /\ c.arg # "*.SAFE")

PatternOrder == <<"*_SCL_20m.jp2", "*_SCL_60m.jp2", "*_SCL_*.jp2">>

\* C7: extract evaluates the patterns in the order 20m, 60m, generic and
\* stops at the first that matches, decoding that pattern's first match: a
\* later pattern is evaluated only when every earlier one matched nothing,
\* and the lack of a classification file is reported only after all three
\* were evaluated, in that order, without a match.
C7_PatternsInOrder ==
    LET n == Len(PatternGlobs) IN
    /\ n <= 3
    /\ \A k \in 1..n : PatternGlobs[k].arg = PatternOrder[k]
    /\ \A k \in 1..(n - 1) : Glob(PatternOrder[k]) = <<>>
    /\ pc \in {"ext_open", "ext_read"} =>
         /\ n >= 1
         /\ Glob(PatternOrder[n]) # <<>>
         /\ scl_file_path = Glob(PatternOrder[n])[1]
    /\ \A k \in DOMAIN extLog :
         extLog[k].op \in {"open", "read"} => extLog[k].arg = scl_file_path
    /\ pc = "ext_not_found" =>
         /\ n = 3
         /\ \A k \in 1..3 : Glob(PatternOrder[k]) = <<>>

\* The tree lists a 60m file before a 20m file: only the 20m pattern was
\* evaluated, and the 20m file is the one to decode.
C7_Witness ==
    /\ pc = "ext_open"
    /\ Tree = <<"T1_SCL_60m.jp2", "T1_SCL_20m.jp2">>
    /\ Len(PatternGlobs) = 1
    /\ scl_file_path = "T1_SCL_20m.jp2"

\* C8: for a product path that does not exist, extract returns (None, None)
\* after the one existence check of that path: no directory is created, no
\* archive opened, no pattern evaluated, no raster opened.
C8_MissingPathOnlyChecked ==
    (product_path \in Paths /\ disk[product_path] = "absent") =>
        /\ pc \in {"ext_exists", "ext_return"}
        /\ pc = "ext_exists" => extLog = <<>>
        /\ pc = "ext_return" =>
             /\ extLog = <<ExtCall("exists", product_path)>>
             /\ extRet = NoPair

\* Extract returns for a path that is not on disk.
C8_Witness ==
    /\ pc = "ext_return"
    /\ product_path \in Paths
    /\ disk[product_path] = "absent"
    /\ extRet = NoPair

ExtCount(op) == Len(SelectSeq(extLog, LAMBDA c : c.op = op))

\* This invocation checked whether the extraction directory exists.
ZipChecked ==
    \E k \in DOMAIN extLog : extLog[k] = ExtCall("exists", "S2_extracted")

\* C9 as stated: an invocation that finds no extraction directory creates it
\* and decompresses the archive exactly once; one that finds it creates
\* nothing and decompresses nothing; over all invocations the archive is
\* decompressed at most once.
C9_AsStated ==
    /\ (pc = "ext_return" /\ ZipChecked /\ ~dirExisted) =>
          ExtCount("makedirs") = 1 /\ ExtCount("extractall") = 1
    /\ (pc = "ext_return" /\ ZipChecked /\ dirExisted) =>
          ExtCount("makedirs") = 0 /\ ExtCount("extractall") = 0
    /\ decompressions <= 1

\* C9, amended: an invocation that finds no extraction directory calls
\* makedirs exactly once and, unless makedirs or the opening of the archive
\* raised, decompresses exactly once (not at all when one of them raised);
\* one that finds the directory creates nothing and decompresses nothing;
\* over all invocations the archive is decompressed at most once.
C9_ExtractsAtMostOnce ==
    /\ (pc = "ext_return" /\ ZipChecked /\ ~dirExisted) =>
          /\ ExtCount("makedirs") = 1
          /\ ExtCount("extractall") =
               IF extRaisedAt \in {"makedirs", "ZipFile"} THEN 0 ELSE 1
    /\ (pc = "ext_return" /\ ZipChecked /\ dirExisted) =>
          ExtCount("makedirs") = 0 /\ ExtCount("extractall") = 0
    /\ decompressions <= 1

\* A second invocation reuses the directory the first one decompressed into.
C9_Witness ==
    /\ pc = "ext_return"
    /\ calls = 2
    /\ ZipChecked
    /\ dirExisted
    /\ extracted.complete
    /\ decompressions = 1

\* C10: an exception raised while the matched file is opened or decoded is
\* caught inside extract, which returns (None, None) and does not raise.
C10_DecodeErrorsCaught ==
    /\ raisedBy # "extract"
    /\ (pc = "ext_return" /\ extRaisedAt \in {"open", "read"}) => extRet = NoPair

\* Extract returns after the decoder raised while reading the band.
C10_Witness ==
    /\ pc = "ext_return"
    /\ extRaisedAt = "read"
    /\ extRet = NoPair

PltCount(op) == Len(SelectSeq(pltLog, LAMBDA c : c.op = op))

TypeDiagnostic == "Error: scl_data must be a NumPy array."

\* C11: render, given an input that is no array at all (a plain string),
\* prints exactly "Error: scl_data must be a NumPy array." and returns
\* without any call into the plotting client: no figure is created, nothing
\* is drawn, saved, shown or closed, and nothing is raised.
C11_NonArrayRejected ==
    scl_data = "str" =>
        /\ pc \in {"ren_check", "ren_return"}
        /\ pltLog = <<>>
        /\ figs = 0
        /\ pc = "ren_check" => printed = <<>>
        /\ pc = "ren_return" => printed = <<TypeDiagnostic>>

\* Render returns after it was handed a string.
C11_Witness ==
    /\ pc = "ren_return"
    /\ scl_data = "str"
    /\ printed = <<TypeDiagnostic>>
    /\ pltLog = <<>>

\* C12: render fails with its type diagnostic, before any call into the
\* plotting client, for every input that is not a 2-D numeric grid: arrays
\* with one or three dimensions and arrays of non-numeric elements too.
C12_NonGridRejected ==
    scl_data \in DataKinds \ {"ndarray"} =>
        /\ pc \in {"ren_check", "ren_return"}
        /\ pltLog = <<>>
        /\ pc = "ren_return" => printed = <<TypeDiagnostic>>

\* The output step was reached and did what the claim lists: the save
\* succeeded, the save raised, or the figure was displayed.
SaveSucceeded ==
    /\ PltCount("savefig") = 1
    /\ pc \in {"ren_close", "ren_return", "crashed"}
    /\ "SCL map saved to" \in {printed[k] : k \in DOMAIN printed}
SaveRaised == "Error saving SCL map" \in {printed[k] : k \in DOMAIN printed}
Displayed ==
    /\ PltCount("show") = 1
    /\ pc \in {"ren_close", "ren_return", "crashed"}
    /\ renRaisedAt # "show"

\* C13: an invocation that draws closes the figure it created exactly once,
\* after the output step and not before it: when the save succeeded, when
\* the save raised, and when the figure was displayed.
C13_FigureClosedOnce ==
    /\ pc \in {"ren_draw", "ren_output", "ren_except", "ren_close"} =>
          PltCount("close") = 0
    /\ (pc \in {"ren_return", "crashed"} /\ (SaveSucceeded \/ SaveRaised \/ Displayed)) =>
          /\ PltCount("subplots") = 1
          /\ PltCount("close") = 1
          /\ pltLog[Len(pltLog)].op = "close"
    /\ (pc = "ren_return" /\ pltLog # <<>>) =>
          /\ PltCount("close") = 1
          /\ figs = 0

\* Render returns after savefig raised, with the figure closed.
C13_Witness ==
    /\ pc = "ren_return"
    /\ SaveRaised
    /\ PltCount("close") = 1
    /\ figs = 0

\* C14: with a valid grid, render saves to output_image_path and never shows
\* when the path is non-empty, and shows and never saves when the path is
\* None or empty; an invocation that returns has done exactly one of the
\* two; a savefig that raises is caught and reported, render goes on to
\* close the figure.
C14_SaveOrShow ==
    scl_data = "ndarray" =>
        /\ Truthy(output_image_path) =>
              /\ PltCount("show") = 0
              /\ \A k \in DOMAIN pltLog :
                    pltLog[k].op = "savefig" => pltLog[k].arg = <<output_image_path>>
        /\ ~Truthy(output_image_path) => PltCount("savefig") = 0
        /\ pc \in {"ren_close", "ren_return"} =>
              PltCount("savefig") + PltCount("show") = 1
        /\ renRaisedAt = "savefig" =>
              /\ pc \in {"ren_except", "ren_close", "ren_return"}
              /\ pc # "ren_except" => SaveRaised

\* Render returns after a savefig that raised, for a valid grid and a path.
C14_Witness ==
    /\ pc = "ren_return"
    /\ scl_data = "ndarray"
    /\ output_image_path = "viz.png"
    /\ renRaisedAt = "savefig"
    /\ PltCount("savefig") = 1

\* The handles of the legend calls made so far.
LegendCalls == SelectSeq(pltLog, LAMBDA c : c.op = "legend")

\* C15: for a grid with values in 0..11, render makes exactly one legend
\* call, and its handle list has exactly 12 entries, one per class code
\* 0..11 in ascending order, whatever codes occur in the grid.
C15_LegendHasAllClasses ==
    scl_data = "ndarray" =>
        /\ Len(LegendCalls) <= 1
        /\ pc \in {"ren_output", "ren_except", "ren_close", "ren_return"} =>
              Len(LegendCalls) = 1
        /\ \A k \in DOMAIN LegendCalls :
              LET h == LegendCalls[k].arg IN
              /\ Len(h) = 12
              /\ \A i \in DOMAIN h : h[i].id = i - 1

\* Render returns for a grid that holds the single code 4.
C15_Witness ==
    /\ pc = "ren_return"
    /\ scl_data = "ndarray"
    /\ grid = <<4>>
    /\ Len(LegendCalls) = 1
    /\ Len(LegendCalls[1].arg) = 12

\* C16: no failure raised by the plotting client at any step of render
\* (figure creation, image, legend, layout, save, display) leaves render.
C16_RenderNeverRaises == raisedBy # "render"

Printed(m) == m \in {printed[k] : k \in DOMAIN printed}

\* C17: main checks each stage's result: a failed stage gets a diagnostic of
\* its own and no success message; in particular after a render that failed
\* main prints neither "Visualization saved to" nor "Processing complete.".
C17_EveryStageChecked ==
    pc = "done" =>
        /\ ~Truthy(downloaded_product_path) =>
              /\ Printed("Failed to download Sentinel imagery.")
              /\ ~Printed("Successfully downloaded product to")
        /\ (Len(stages) >= 2 /\ ~MainSclGuard(scl)) =>
              /\ Printed("Failed to generate SCL map.")
              /\ ~Printed("Successfully generated SCL map data.")
        /\ (Len(stages) = 3 /\ (SaveRaised \/ Printed(TypeDiagnostic))) =>
              /\ ~Printed("Visualization saved to")
              /\ ~Printed("Processing complete.")

\* The calls acquire made for the output directory.
DirCalls(op) ==
    SelectSeq(apiLog, LAMBDA c : c.op = op /\ c.path = download_path)

\* C18 as stated: every invocation of acquire leaves the output directory in
\* place, created if it was absent and untouched if it was there, whether or
\* not the session, the query or the download fails.
C18_AsStated ==
    pc = "acq_return" =>
        /\ outDir
        /\ (\E k \in DOMAIN DirCalls("exists") : DirCalls("exists")[k].found) =>
              Len(DirCalls("makedirs")) = 0

\* C18, amended: an invocation whose session was opened checks the output
\* directory once; when it is there no creation is attempted; when it is
\* absent makedirs is called once and the directory is there afterwards
\* unless makedirs raised (acquire then returns None); this whether or not
\* the query or the download fails. An invocation whose session could not be
\* opened neither checks nor creates the directory.
C18_EnsuresDirAfterSession ==
    pc = "acq_return" =>
        IF acqRaisedAt = "session"
          THEN Len(DirCalls("exists")) = 0 /\ Len(DirCalls("makedirs")) = 0
          ELSE /\ Len(DirCalls("exists")) = 1
               /\ IF DirCalls("exists")[1].found
                    THEN Len(DirCalls("makedirs")) = 0 /\ outDir
                    ELSE /\ Len(DirCalls("makedirs")) = 1
                         /\ acqRaisedAt # "makedirs" => outDir
                         /\ acqRaisedAt = "makedirs" => ~outDir /\ acqRet = None

\* Acquire created the directory and returns after its query raised.
C18_Witness ==
    /\ pc = "acq_return"
    /\ acqRaisedAt = "query"
    /\ Len(DirCalls("makedirs")) = 1
    /\ outDir

\* The os.path.exists call that follows the verified download said yes.
FirstYieldedFile ==
    \E k \in DOMAIN apiLog :
        /\ k > 1
        /\ apiLog[k].op = "exists" /\ apiLog[k].found
        /\ apiLog[k - 1].op = "download" /\ apiLog[k - 1].checksum

\* C19: one invocation of acquire issues at most one query and at most two
\* download calls, both for the selected product; the first verifies the
\* checksum; the second is issued only after the first yielded no file that
\* exists, and never verifies; when the first yields a file that exists its
\* path is returned and there is no second call.
C19_AtMostTwoDownloads ==
    /\ Len(SelectSeq(apiLog, LAMBDA c : c.op = "query")) <= 1
    /\ Len(Downloads) <= 2
    /\ Len(Downloads) >= 1 =>
          /\ Downloads[1].checksum
          /\ Downloads[1].id = product_id
    /\ Len(Downloads) = 2 =>
          /\ ~Downloads[2].checksum
          /\ Downloads[2].id = Downloads[1].id
          /\ ~FirstYieldedFile
          /\ acqRaisedAt # "download"
    /\ FirstYieldedFile =>
          /\ Len(Downloads) = 1
          /\ pc = "acq_return"
          /\ acqRet = download_info.path

\* Acquire returns the path of the verified download, which is on disk.
C19_Witness ==
    /\ pc = "acq_return"
    /\ FirstYieldedFile
    /\ Len(Downloads) = 1
    /\ acqRet \in Paths

\* A name with the product-container suffix.
IsContainer(d) == d \in {"S2.SAFE", "S2B.SAFE"}

C21_ReusedDirIsComplete ==
    (ZipChecked /\ dirExisted) => extracted.complete

====
